---- MODULE Spec2Model ----
(***************************************************************************)
(* bevy-patch (src/main.rs): prints a [patch.crates-io] block that points   *)
(* bevy and every crate under crates/ at a local checkout (path mode) or at *)
(* a GitHub repository and ref (git mode).                                  *)
(*                                                                          *)
(* Strings are sequences of one-character strings, so that contains,        *)
(* replace, ends_with, format! and the ordering used by sort are computed   *)
(* character by character as the Rust code computes them.  Option<String>   *)
(* is a sequence of length 0 (None) or 1 (Some).                            *)
(***************************************************************************)
EXTENDS Naturals, Sequences, FiniteSets

VARIABLES pc, given, command, result, repo, git_ref, query, response,
          listing, crates, stdout, err

vars == <<pc, given, command, result, repo, git_ref, query, response,
          listing, crates, stdout, err>>

(***************************************************************************)
(* String literals of the source.                                          *)
(***************************************************************************)
\* main.rs:156
HeaderLine == <<"[", "p", "a", "t", "c", "h", ".", "c", "r", "a", "t", "e", "s", "-", "i", "o", "]">>
\* main.rs:157
CommentLine == <<"#", " ", "B", "e", "v", "y", " ", "P", "a", "t", "c", "h">>
\* main.rs:163, the text before {path}
BevyPathOpen == <<"b", "e", "v", "y", " ", "=", " ", "{", " ", "p", "a", "t", "h", " ", "=", " ", "\"">>
\* main.rs:166, the text between {c} and {path}
PathOpen == <<" ", "=", " ", "{", " ", "p", "a", "t", "h", " ", "=", " ", "\"">>
\* main.rs:163 and 166, the text after the path
LineClose == <<"\"", " ", "}">>
\* main.rs:166
CratesSegment == <<"/", "c", "r", "a", "t", "e", "s", "/">>
\* main.rs:195, the text before {repo}
BevyGitOpen == <<"b", "e", "v", "y", " ", "=", " ", "{", " ", "g", "i", "t", " ", "=", " ", "\"">>
\* main.rs:197, the text between {c} and {repo}
GitOpen == <<" ", "=", " ", "{", " ", "g", "i", "t", " ", "=", " ", "\"">>
\* main.rs:195 and 197, the text between {repo} and {specifier}
GitMiddle == <<"\"", ",", " ">>
\* main.rs:195 and 197, the text after {specifier}
GitClose == <<" ", "}">>
\* main.rs:186
TagOpen == <<"t", "a", "g", " ", "=", " ", "\"">>
\* main.rs:188
BranchOpen == <<"b", "r", "a", "n", "c", "h", " ", "=", " ", "\"">>
\* main.rs:190
RevOpen == <<"r", "e", "v", " ", "=", " ", "\"">>
\* main.rs:186-190, the closing quote of a specifier
Quote == <<"\"">>
\* main.rs:179
MainRef == <<"m", "a", "i", "n">>
\* main.rs:192
DefaultBranchSpecifier == <<"b", "r", "a", "n", "c", "h", " ", "=", " ", "\"", "m", "a", "i", "n", "\"">>
\* main.rs:91
Slash == <<"/">>
\* main.rs:92
BevySuffix == <<"/", "b", "e", "v", "y">>
\* main.rs:96-97 and 113
HostSlash == <<"g", "i", "t", "h", "u", "b", ".", "c", "o", "m", "/">>
\* main.rs:101
Http == <<"h", "t", "t", "p", ":", "/", "/">>
\* main.rs:101 and 104-105
Https == <<"h", "t", "t", "p", "s", ":", "/", "/">>
\* main.rs:113
ApiHostRepos == <<"a", "p", "i", ".", "g", "i", "t", "h", "u", "b", ".", "c", "o", "m", "/", "r", "e", "p", "o", "s", "/">>
\* main.rs:115
DotGit == <<".", "g", "i", "t">>
\* main.rs:119
ContentsSuffix == <<"/", "c", "o", "n", "t", "e", "n", "t", "s", "/", "c", "r", "a", "t", "e", "s", "?", "r", "e", "f", "=">>
\* main.rs:56
ColonSpace == <<":", " ">>
\* main.rs:140
DirType == <<"d", "i", "r">>
\* main.rs:21
DefaultRepo == <<"h", "t", "t", "p", "s", ":", "/", "/", "g", "i", "t", "h", "u", "b", ".", "c", "o", "m", "/", "b", "e", "v", "y", "e", "n", "g", "i", "n", "e", "/", "b", "e", "v", "y">>
\* main.rs:202, the separator of join and the end of println!
Newline == <<"\n">>

(***************************************************************************)
(* Option<String> and the str methods the program calls.                   *)
(***************************************************************************)
None == << >>

Some(v) == <<v>>

is_some(o) == Len(o) = 1

\* str::contains with a non-empty pattern
contains(s, pat) ==
    \E i \in 1..Len(s) :
        /\ i + Len(pat) - 1 <= Len(s)
        /\ SubSeq(s, i, i + Len(pat) - 1) = pat

\* str::ends_with
ends_with(s, suffix) ==
    /\ Len(s) >= Len(suffix)
    /\ SubSeq(s, Len(s) - Len(suffix) + 1, Len(s)) = suffix

\* str::replace: every non-overlapping match, found left to right
RECURSIVE replace(_, _, _)
replace(s, from, to) ==
    IF Len(s) < Len(from) THEN s
    ELSE IF SubSeq(s, 1, Len(from)) = from
         THEN to \o replace(SubSeq(s, Len(from) + 1, Len(s)), from, to)
         ELSE <<Head(s)>> \o replace(Tail(s), from, to)

\* The characters of the modelled crate names, ascending by byte value:
\* String's Ord compares byte by byte.
ByteOrder == <<"-", ".", "0", "1", "B", "_", "a", "b", "c", "d", "e", "v", "y">>

byte(ch) == CHOOSE i \in 1..Len(ByteOrder) : ByteOrder[i] = ch

\* a < b for String
RECURSIVE str_lt(_, _)
str_lt(a, b) ==
    IF b = << >> THEN FALSE
    ELSE IF a = << >> THEN TRUE
    ELSE IF Head(a) = Head(b) THEN str_lt(Tail(a), Tail(b))
    ELSE byte(Head(a)) < byte(Head(b))

\* sort left out: the Vec as collected
sort_omitted(v) == v

\* Insert x into an ascending Vec, after the elements equal to it
RECURSIVE insert_sorted(_, _)
insert_sorted(x, v) ==
    IF v = << >> THEN <<x>>
    ELSE IF str_lt(x, Head(v)) THEN <<x>> \o v
    ELSE <<Head(v)>> \o insert_sorted(x, Tail(v))

\* Vec<String>::sort (stable, ascending)
RECURSIVE sort(_)
sort(v) ==
    IF v = << >> THEN << >>
    ELSE insert_sorted(v[Len(v)], sort(SubSeq(v, 1, Len(v) - 1)))

(***************************************************************************)
(* user_friendly_repo, one definition per rule.                            *)
(***************************************************************************)
\* aceeri -> aceeri/bevy
AppendDefaultRepo(corrected) ==
    IF ~contains(corrected, Slash) THEN corrected \o BevySuffix ELSE corrected

\* aceeri/bevy -> github.com/aceeri/bevy
PrependHost(corrected) ==
    IF ~contains(corrected, HostSlash) THEN HostSlash \o corrected ELSE corrected

\* The replacement left out
CorrectScheme_omitted(corrected) == corrected

\* The replacement of "http" instead of "http://"
CorrectScheme_loose(corrected) ==
    replace(corrected, <<"h", "t", "t", "p">>, <<"h", "t", "t", "p", "s">>)

\* http:// -> https://
CorrectScheme(corrected) == replace(corrected, Http, Https)

\* github.com/aceeri/bevy -> https://github.com/aceeri/bevy
PrependScheme(corrected) ==
    IF ~contains(corrected, Https) THEN Https \o corrected ELSE corrected

\* A normalizer that also removes a trailing .git
user_friendly_repo_no_git(r) ==
    LET corrected == PrependScheme(CorrectScheme(PrependHost(AppendDefaultRepo(r)))) IN
    IF ends_with(corrected, DotGit)
    THEN SubSeq(corrected, 1, Len(corrected) - 4)
    ELSE corrected

user_friendly_repo(r) ==
    PrependScheme(CorrectScheme(PrependHost(AppendDefaultRepo(r))))

(***************************************************************************)
(* api_url                                                                 *)
(***************************************************************************)
RewriteHost(r) == replace(r, HostSlash, ApiHostRepos)

\* The suffix kept
StripDotGit_omitted(url) == url

StripDotGit(url) ==
    IF ends_with(url, DotGit) THEN SubSeq(url, 1, Len(url) - 4) ELSE url

api_url(r, ref) ==
    StripDotGit(RewriteHost(user_friendly_repo(r))) \o ContentsSuffix \o ref

(***************************************************************************)
(* GithubError and its Display                                             *)
(***************************************************************************)
GithubError(status, message) == [status |-> status, message |-> message]

fmt(e) == e.status \o ColonSpace \o e.message

(***************************************************************************)
(* The errors main can return.  An anyhow context is kept as the pair it   *)
(* was formatted from.                                                     *)
(***************************************************************************)
NoError == [kind |-> "none", context |-> << >>, message |-> << >>]

Error(kind, message) == [kind |-> kind, context |-> << >>, message |-> message]

with_context(e, r, ref) == [e EXCEPT !.context = <<r, ref>>]

Ok(v) == [ok |-> TRUE, value |-> v, err |-> NoError]

Err(e) == [ok |-> FALSE, value |-> << >>, err |-> e]

(***************************************************************************)
(* fetch_crates_from_local over the state of <path>/crates: whether        *)
(* read_dir opens it, and the entries in the order the iteration yields    *)
(* them.  An entry is [name, kind]: "dir", "file", "dir_non_utf8" (a       *)
(* directory whose name is not valid text), "entry_err" (the iteration     *)
(* fails at it) or "type_err" (file_type fails).                           *)
(***************************************************************************)
\* The loop without the is_dir test
RECURSIVE read_entries_keep_files(_, _)
read_entries_keep_files(dir, acc) ==
    IF dir = << >> THEN Ok(acc)
    ELSE LET c == Head(dir) IN
         IF c.kind = "entry_err" THEN Err(Error("io", << >>))
         ELSE IF c.kind = "type_err" THEN Err(Error("io", << >>))
         ELSE IF c.kind = "dir_non_utf8" THEN Err(Error("name", << >>))
         ELSE read_entries_keep_files(Tail(dir), Append(acc, c.name))

RECURSIVE read_entries(_, _)
read_entries(dir, acc) ==
    IF dir = << >> THEN Ok(acc)
    ELSE LET c == Head(dir) IN
         IF c.kind = "entry_err" THEN Err(Error("io", << >>))
         ELSE IF c.kind = "type_err" THEN Err(Error("io", << >>))
         ELSE IF c.kind = "file" THEN read_entries(Tail(dir), acc)
         ELSE IF c.kind = "dir_non_utf8" THEN Err(Error("name", << >>))
         ELSE read_entries(Tail(dir), Append(acc, c.name))

fetch_crates_from_local(fs) ==
    IF ~fs.readable THEN Err(Error("io", << >>))
    ELSE read_entries(fs.entries, << >>)

(***************************************************************************)
(* fetch_crates_from_github after api_url: the outcome of send() and of    *)
(* reading the response.  A response is [sent, status, body]; a body is    *)
(* [kind |-> "contents", items], [kind |-> "error", status, message] or    *)
(* [kind |-> "other"] (neither shape).                                     *)
(***************************************************************************)
RECURSIVE dir_names(_)
dir_names(content) ==
    IF content = << >> THEN << >>
    ELSE IF Head(content).type = DirType
         THEN <<Head(content).name>> \o dir_names(Tail(content))
         ELSE dir_names(Tail(content))

\* Any 2xx status taken as success
is_ok_status_2xx(status) == status \in 200..299

is_ok_status(status) == status = 200

read_response(resp) ==
    IF ~resp.sent THEN Err(Error("send", << >>))
    ELSE IF is_ok_status(resp.status)
         THEN IF resp.body.kind = "contents"
              THEN Ok(sort(dir_names(resp.body.items)))
              ELSE Err(Error("parse", << >>))
         ELSE IF resp.body.kind = "error"
              THEN Err(Error("github",
                             fmt(GithubError(resp.body.status, resp.body.message))))
              ELSE Err(Error("parse", << >>))

(***************************************************************************)
(* main: the ref and the specifier, and the lines of the block.            *)
(***************************************************************************)
select_ref(tag, branch, rev) ==
    IF is_some(tag) THEN tag[1]
    ELSE IF is_some(branch) THEN branch[1]
    ELSE IF is_some(rev) THEN rev[1]
    ELSE MainRef

\* The specifier chosen with branch before tag
specifier_branch_first(tag, branch, rev) ==
    IF is_some(branch) THEN BranchOpen \o branch[1] \o Quote
    ELSE IF is_some(tag) THEN TagOpen \o tag[1] \o Quote
    ELSE IF is_some(rev) THEN RevOpen \o rev[1] \o Quote
    ELSE DefaultBranchSpecifier

specifier(tag, branch, rev) ==
    IF is_some(tag) THEN TagOpen \o tag[1] \o Quote
    ELSE IF is_some(branch) THEN BranchOpen \o branch[1] \o Quote
    ELSE IF is_some(rev) THEN RevOpen \o rev[1] \o Quote
    ELSE DefaultBranchSpecifier

bevy_path_line(path) == BevyPathOpen \o path \o LineClose

\* The crate line without the crates directory
crate_path_line_flat(path, c) ==
    c \o PathOpen \o path \o Slash \o c \o LineClose

crate_path_line(path, c) ==
    c \o PathOpen \o path \o CratesSegment \o c \o LineClose

bevy_git_line(r, spec) == BevyGitOpen \o r \o GitMiddle \o spec \o GitClose

crate_git_line(r, spec, c) == c \o GitOpen \o r \o GitMiddle \o spec \o GitClose

RECURSIVE push_path_lines(_, _, _)
push_path_lines(lines, path, cs) ==
    IF cs = << >> THEN lines
    ELSE push_path_lines(Append(lines, crate_path_line(path, Head(cs))),
                         path, Tail(cs))

RECURSIVE push_git_lines(_, _, _, _)
push_git_lines(lines, r, spec, cs) ==
    IF cs = << >> THEN lines
    ELSE push_git_lines(Append(lines, crate_git_line(r, spec, Head(cs))),
                        r, spec, Tail(cs))

\* [String]::join
RECURSIVE join(_, _)
join(lines, sep) ==
    IF lines = << >> THEN << >>
    ELSE IF Len(lines) = 1 THEN Head(lines)
    ELSE Head(lines) \o sep \o join(Tail(lines), sep)

\* println!("{}", text)
println(text) == text \o Newline

(***************************************************************************)
(* Inputs.  A repository argument is written through one of the shorthand  *)
(* forms the comment above user_friendly_repo lists (and the same with a   *)
(* .git suffix), or is an arbitrary string ("raw", kept in o).             *)
(***************************************************************************)
MaxPieces == 3

MaxEntries == 3

MaxRecords == 2

A == <<"a">>

HttpColon == <<"h", "t", "t", "p", ":">>

Host == <<"g", "i", "t", "h", "u", "b", ".", "c", "o", "m">>

Shorthand(form, o, r) ==
    CASE form = "raw"       -> o
      [] form = "owner"     -> o
      [] form = "o/r"       -> o \o Slash \o r
      [] form = "host"      -> HostSlash \o o \o Slash \o r
      [] form = "http"      -> Http \o HostSlash \o o \o Slash \o r
      [] form = "https"     -> Https \o HostSlash \o o \o Slash \o r
      [] form = "https.git" -> Https \o HostSlash \o o \o Slash \o r \o DotGit

Forms == {"o/r", "host", "http", "https", "https.git"}

\* Strings of at most n pieces
Pieces == {Http, Https, Host, Slash, DotGit, A, HttpColon}

RECURSIVE PieceStrings(_)
PieceStrings(n) ==
    IF n = 0 THEN {<< >>}
    ELSE LET shorter == PieceStrings(n - 1) IN
         shorter \cup {s \o p : s \in shorter, p \in Pieces}

\* Owner and repository names: no "/" in any of them
Names == {A, A \o DotGit, HttpColon, Host, <<"b", "e", "v", "y">>,
          A \o <<".">> \o Host}

Given(form, o, r) == [form |-> form, o |-> o, r |-> r]

AllGiven ==
    {Given("raw", s, << >>) : s \in PieceStrings(MaxPieces)}
        \cup {Given("owner", o, << >>) : o \in Names}
        \cup {Given(f, o, r) : f \in Forms, o \in Names, r \in Names}

FewGiven ==
    {Given("raw", DefaultRepo, << >>), Given("owner", A, << >>)}
        \cup {Given(f, A, <<"b">>) : f \in {"http", "https.git"}}

TagValue == <<"v", "1">>

BranchValue == <<"d", "e", "v">>

RevValue == <<"a", "b", "c", "0", "1">>

Paths == {<<"/", "r", "e", "p", "o">>, <<".">>}

CrateNames == {<<"a">>, <<"a", "b">>, <<"b">>, <<"B">>}

PathCli(path) ==
    [mode |-> "path", path |-> path, repo |-> << >>,
     branch |-> None, tag |-> None, rev |-> None]

GitCli(r, branch, tag, rev) ==
    [mode |-> "git", path |-> << >>, repo |-> r,
     branch |-> branch, tag |-> tag, rev |-> rev]

\* The states <path>/crates can be in: unreadable, or readable with at most
\* MaxEntries entries of distinct names in some iteration order
EntryKinds == {"dir", "file", "dir_non_utf8", "entry_err", "type_err"}

RECURSIVE Listings(_)
Listings(n) ==
    IF n = 0 THEN {<< >>}
    ELSE LET shorter == Listings(n - 1) IN
         shorter \cup
         {Append(l, [name |-> nm, kind |-> k]) :
              l \in {x \in shorter : Len(x) = n - 1},
              nm \in CrateNames, k \in EntryKinds}

DistinctNames(l) == \A i, j \in 1..Len(l) : l[i].name = l[j].name => i = j

Directories ==
    {[readable |-> FALSE, entries |-> << >>]}
        \cup {[readable |-> TRUE, entries |-> l] :
                  l \in {x \in Listings(MaxEntries) : DistinctNames(x)}}

NoDirectory == [readable |-> FALSE, entries |-> << >>]

\* The responses the request can get
Statuses == {200, 204, 302, 404}

ContentTypes == {DirType, <<"f", "i", "l", "e">>}

RECURSIVE Contents(_)
Contents(n) ==
    IF n = 0 THEN {<< >>}
    ELSE LET shorter == Contents(n - 1) IN
         shorter \cup
         {Append(l, [name |-> nm, type |-> t]) :
              l \in {x \in shorter : Len(x) = n - 1},
              nm \in CrateNames, t \in ContentTypes}

NotFound == <<"N", "o", "t", " ", "F", "o", "u", "n", "d">>

Bodies ==
    {[kind |-> "contents", items |-> l] : l \in Contents(MaxRecords)}
        \cup {[kind |-> "error", status |-> <<"4", "0", "4">>, message |-> NotFound],
              [kind |-> "error", status |-> <<"3", "0", "2">>, message |-> << >>],
              [kind |-> "other"]}

NotSent == [sent |-> FALSE, status |-> 0, body |-> [kind |-> "other"]]

Responses ==
    {NotSent} \cup {[sent |-> TRUE, status |-> s, body |-> b] :
                        s \in Statuses, b \in Bodies}

(***************************************************************************)
(* main.  pc is the position in main: "parsed" after the two fixed lines   *)
(* are pushed, then per mode up to "printed", or "failed" when a ? returns *)
(* the error.                                                              *)
(***************************************************************************)
Start(g, cli) ==
    /\ pc = "parsed"
    /\ given = g
    /\ command = cli
    /\ result = <<HeaderLine, CommentLine>>
    /\ repo = << >>
    /\ git_ref = << >>
    /\ query = << >>
    /\ response = NotSent
    /\ listing = NoDirectory
    /\ crates = << >>
    /\ stdout = << >>
    /\ err = NoError

Init ==
    \/ \E path \in Paths : Start(Given("raw", << >>, << >>), PathCli(path))
    \/ \E g \in FewGiven, branch \in {None, Some(BranchValue)},
          tag \in {None, Some(TagValue)}, rev \in {None, Some(RevValue)} :
           Start(g, GitCli(Shorthand(g.form, g.o, g.r), branch, tag, rev))

\* main.rs:161: fetch_crates_from_local(&path)?
PathDiscover ==
    /\ pc = "parsed"
    /\ command.mode = "path"
    /\ \E fs \in Directories :
           LET r == fetch_crates_from_local(fs) IN
           /\ listing' = fs
           /\ IF r.ok
              THEN /\ crates' = r.value
                   /\ pc' = "discovered"
                   /\ err' = err
              ELSE /\ crates' = crates
                   /\ pc' = "failed"
                   /\ err' = r.err
    /\ UNCHANGED <<given, command, result, repo, git_ref, query, response, stdout>>

\* main.rs:163-167
PathRender ==
    /\ pc = "discovered"
    /\ command.mode = "path"
    /\ result' = push_path_lines(Append(result, bevy_path_line(command.path)),
                                 command.path, crates)
    /\ pc' = "rendered"
    /\ UNCHANGED <<given, command, repo, git_ref, query, response, listing,
                   crates, stdout, err>>

\* main.rs:175-181
GitNormalize ==
    /\ pc = "parsed"
    /\ command.mode = "git"
    /\ git_ref' = select_ref(command.tag, command.branch, command.rev)
    /\ repo' = user_friendly_repo(command.repo)
    /\ pc' = "normalized"
    /\ UNCHANGED <<given, command, result, query, response, listing, crates,
                   stdout, err>>

\* main.rs:182 and 124: fetch_crates_from_github builds the URL it requests
GitBuildQuery ==
    /\ pc = "normalized"
    /\ query' = api_url(repo, git_ref)
    /\ pc' = "queried"
    /\ UNCHANGED <<given, command, result, repo, git_ref, response, listing,
                   crates, stdout, err>>

\* The request with the lines pushed so far printed before the error returns
GitSend_prints_first ==
    /\ pc = "queried"
    /\ \E resp \in Responses :
           LET r == read_response(resp) IN
           /\ response' = resp
           /\ stdout' = println(join(result, Newline))
           /\ IF r.ok
              THEN /\ crates' = r.value
                   /\ pc' = "discovered"
                   /\ err' = err
              ELSE /\ crates' = crates
                   /\ pc' = "failed"
                   /\ err' = with_context(r.err, repo, git_ref)
    /\ UNCHANGED <<given, command, result, repo, git_ref, query, listing>>

\* main.rs:126-149 and 183: the request, its response, and the context on failure
GitSend ==
    /\ pc = "queried"
    /\ \E resp \in Responses :
           LET r == read_response(resp) IN
           /\ response' = resp
           /\ IF r.ok
              THEN /\ crates' = r.value
                   /\ pc' = "discovered"
                   /\ err' = err
              ELSE /\ crates' = crates
                   /\ pc' = "failed"
                   /\ err' = with_context(r.err, repo, git_ref)
    /\ UNCHANGED <<given, command, result, repo, git_ref, query, listing, stdout>>

\* main.rs:185-198
GitRender ==
    /\ pc = "discovered"
    /\ command.mode = "git"
    /\ LET spec == specifier(command.tag, command.branch, command.rev) IN
       result' = push_git_lines(Append(result, bevy_git_line(repo, spec)),
                                repo, spec, crates)
    /\ pc' = "rendered"
    /\ UNCHANGED <<given, command, repo, git_ref, query, response, listing,
                   crates, stdout, err>>

\* main.rs:202-203
PrintBlock ==
    /\ pc = "rendered"
    /\ stdout' = println(join(result, Newline))
    /\ pc' = "printed"
    /\ UNCHANGED <<given, command, result, repo, git_ref, query, response,
                   listing, crates, err>>

Next ==
    \/ PathDiscover
    \/ PathRender
    \/ GitNormalize
    \/ GitBuildQuery
    \/ GitSend
    \/ GitRender
    \/ PrintBlock

Spec == Init /\ [][Next]_vars

(***************************************************************************)
(* The git mode up to the URL it requests, over every repository argument  *)
(* of AllGiven.                                                            *)
(***************************************************************************)
InitUrl ==
    \E g \in AllGiven, tag \in {None, Some(TagValue)} :
        Start(g, GitCli(Shorthand(g.form, g.o, g.r), None, tag, None))

NextUrl ==
    \/ GitNormalize
    \/ GitBuildQuery

SpecUrl == InitUrl /\ [][NextUrl]_vars

(***************************************************************************)
(* Helpers of the properties.                                              *)
(***************************************************************************)
Positions == {"normalized", "queried", "discovered", "rendered", "printed", "failed"}

Discovered == pc \in {"discovered", "rendered", "printed"}

\* The lines of a text in which every line ends with a newline
NewlinePositions(text) == {i \in 1..Len(text) : <<text[i]>> = Newline}

NthNewline(text, k) ==
    CHOOSE i \in NewlinePositions(text) :
        Cardinality({j \in NewlinePositions(text) : j <= i}) = k

Lines(text) ==
    [k \in 1..Cardinality(NewlinePositions(text)) |->
        SubSeq(text,
               IF k = 1 THEN 1 ELSE NthNewline(text, k - 1) + 1,
               NthNewline(text, k) - 1)]

Ascending(v) == \A i, j \in 1..Len(v) : i < j => ~str_lt(v[j], v[i])

StrictlyAscending(v) == \A i, j \in 1..Len(v) : i < j => str_lt(v[i], v[j])

Count(v, x) == Cardinality({i \in 1..Len(v) : v[i] = x})

\* The key and the value the precedence tag > branch > rev > main selects
SelectedKey ==
    IF command.tag # None THEN <<"t", "a", "g">>
    ELSE IF command.branch # None THEN <<"b", "r", "a", "n", "c", "h">>
    ELSE IF command.rev # None THEN <<"r", "e", "v">>
    ELSE <<"b", "r", "a", "n", "c", "h">>

SelectedValue ==
    IF command.tag # None THEN command.tag[1]
    ELSE IF command.branch # None THEN command.branch[1]
    ELSE IF command.rev # None THEN command.rev[1]
    ELSE <<"m", "a", "i", "n">>

SelectedSpecifier == SelectedKey \o <<" ", "=", " ", "\"">> \o SelectedValue \o <<"\"">>

GitLine(name) ==
    name \o <<" ", "=", " ", "{", " ", "g", "i", "t", " ", "=", " ", "\"">> \o repo
         \o <<"\"", ",", " ">> \o SelectedSpecifier \o <<" ", "}">>

Bevy == <<"b", "e", "v", "y">>

\* The values supplied on flags that the precedence does not select
IgnoredValues ==
    (IF command.tag # None /\ command.branch # None
     THEN {command.branch[1]} ELSE {})
        \cup (IF (command.tag # None \/ command.branch # None) /\ command.rev # None
              THEN {command.rev[1]} ELSE {})

(***************************************************************************)
(* C1: in git mode one ref is selected by the precedence tag > branch >    *)
(* rev > branch "main"; its value is the ref of the API query, the         *)
(* umbrella line and every crate line carry the one specifier that names   *)
(* the selected variant with that value, and a value supplied on a         *)
(* lower-precedence flag occurs nowhere in the query or the output.        *)
(***************************************************************************)
C1_OneRefEverywhere ==
    command.mode = "git" =>
        /\ pc \in Positions =>
               git_ref = SelectedValue
        /\ pc \in Positions \ {"normalized"} =>
               /\ ends_with(query, <<"?", "r", "e", "f", "=">> \o SelectedValue)
               /\ \A v \in IgnoredValues : ~contains(query, v)
        /\ pc \in {"rendered", "printed"} =>
               /\ Len(result) = 3 + Len(crates)
               /\ result[3] = GitLine(Bevy)
               /\ \A i \in 1..Len(crates) : result[3 + i] = GitLine(crates[i])
               /\ \A i \in 1..Len(result), v \in IgnoredValues : ~contains(result[i], v)
        /\ pc = "printed" =>
               /\ Lines(stdout) = result
               /\ \A v \in IgnoredValues : ~contains(stdout, v)

C1_Witness ==
    /\ pc = "printed"
    /\ command.mode = "git"
    /\ command.tag # None
    /\ command.branch # None
    /\ command.rev # None
    /\ Len(crates) = 2

(***************************************************************************)
(* C2: in path mode with path p and crates c1..cn the printed block is     *)
(* n+3 lines: the header, a comment line, bevy = { path = "p" }, and       *)
(* ci = { path = "p/crates/ci" } for i = 1..n in the order received.       *)
(***************************************************************************)
C2_PathBlock ==
    (command.mode = "path" /\ pc = "printed") =>
        LET out == Lines(stdout)
            p == command.path
        IN  /\ Len(out) = Len(crates) + 3
            /\ out[1] = <<"[", "p", "a", "t", "c", "h", ".", "c", "r", "a", "t", "e", "s",
                          "-", "i", "o", "]">>
            /\ Head(out[2]) = "#"
            /\ out[3] = Bevy \o <<" ", "=", " ", "{", " ", "p", "a", "t", "h", " ", "=",
                                  " ", "\"">> \o p \o <<"\"", " ", "}">>
            /\ \A i \in 1..Len(crates) :
                   out[3 + i] =
                       crates[i] \o <<" ", "=", " ", "{", " ", "p", "a", "t", "h", " ",
                                      "=", " ", "\"">>
                                 \o p \o <<"/", "c", "r", "a", "t", "e", "s", "/">>
                                 \o crates[i] \o <<"\"", " ", "}">>

C2_Witness ==
    /\ command.mode = "path"
    /\ pc = "printed"
    /\ Len(crates) = 3
    /\ crates[1] # crates[2]

(***************************************************************************)
(* C3: on a 200 response whose body is a sequence of {name, type} records  *)
(* remote discovery succeeds with the names of the records of type "dir",  *)
(* each as often as it is listed and nothing else, in ascending order.     *)
(***************************************************************************)
C3_RemoteDirsSorted ==
    (response.sent /\ response.status = 200 /\ response.body.kind = "contents") =>
        LET items == response.body.items IN
        /\ Discovered
        /\ Ascending(crates)
        /\ \A nm \in CrateNames :
               Count(crates, nm) =
                   Cardinality({i \in 1..Len(items) :
                                    items[i].name = nm /\ items[i].type = <<"d", "i", "r">>})
        /\ \A i \in 1..Len(crates) : crates[i] \in CrateNames

C3_Witness ==
    /\ response.sent
    /\ response.status = 200
    /\ response.body.kind = "contents"
    /\ Len(response.body.items) = 2
    /\ response.body.items[1].type = <<"d", "i", "r">>
    /\ response.body.items[2].type = <<"d", "i", "r">>
    /\ str_lt(response.body.items[2].name, response.body.items[1].name)
    /\ Len(crates) = 2

(***************************************************************************)
(* C4: for o and r without "/", scheme or github.com, every shorthand is   *)
(* normalized to the canonical URL: o to https://github.com/o/bevy, and    *)
(* o/r, github.com/o/r, http://github.com/o/r, https://github.com/o/r to   *)
(* https://github.com/o/r.                                                 *)
(***************************************************************************)
PlainName(s) ==
    /\ ~contains(s, <<"/">>)
    /\ ~contains(s, <<"g", "i", "t", "h", "u", "b", ".", "c", "o", "m">>)

Canonical(o, r) ==
    <<"h", "t", "t", "p", "s", ":", "/", "/", "g", "i", "t", "h", "u", "b", ".", "c",
      "o", "m", "/">> \o o \o <<"/">> \o r

C4_ShorthandsNormalize ==
    (pc \in {"normalized", "queried"} /\ PlainName(given.o) /\ PlainName(given.r)) =>
        /\ given.form = "owner" => repo = Canonical(given.o, Bevy)
        /\ given.form \in {"o/r", "host", "http", "https"} =>
               repo = Canonical(given.o, given.r)

C4_Witness ==
    /\ pc = "normalized"
    /\ given.form = "http"
    /\ given.o = <<"a">>
    /\ given.r = <<"b", "e", "v", "y">>

(***************************************************************************)
(* C5, as stated: for every owner o, repository name r and ref g,          *)
(* build_query of https://github.com/o/r and of https://github.com/o/r.git *)
(* is https://api.github.com/repos/o/r/contents/crates?ref=g.              *)
(***************************************************************************)
ApiCanonical(o, r, g) ==
    <<"h", "t", "t", "p", "s", ":", "/", "/", "a", "p", "i", ".", "g", "i", "t", "h",
      "u", "b", ".", "c", "o", "m", "/", "r", "e", "p", "o", "s", "/">>
        \o o \o <<"/">> \o r
        \o <<"/", "c", "o", "n", "t", "e", "n", "t", "s", "/", "c", "r", "a", "t", "e",
             "s", "?", "r", "e", "f", "=">> \o g

C5_AsStated ==
    (pc = "queried" /\ given.form \in {"https", "https.git"}) =>
        query = ApiCanonical(given.o, given.r, git_ref)

(***************************************************************************)
(* C5, amended: the same, for o and r without "/", o not ending in         *)
(* github.com, and, for the URL given without the .git suffix, r not       *)
(* ending in .git.                                                         *)
(***************************************************************************)
C5_QueryUrl ==
    (/\ pc = "queried"
     /\ given.form \in {"https", "https.git"}
     /\ ~ends_with(given.o, <<"g", "i", "t", "h", "u", "b", ".", "c", "o", "m">>)
     /\ given.form = "https" => ~ends_with(given.r, <<".", "g", "i", "t">>)) =>
        query = ApiCanonical(given.o, given.r, git_ref)

C5_Witness ==
    /\ pc = "queried"
    /\ given.form = "https.git"
    /\ given.o = <<"a">>
    /\ given.r = <<"a", ".", "g", "i", "t">>
    /\ command.tag # None

(***************************************************************************)
(* C6: stdout stays empty until the whole block is printed, which happens  *)
(* only after discovery succeeded; a run in which discovery fails ends in  *)
(* an error with nothing printed.                                          *)
(***************************************************************************)
LocalDiscoveryFails ==
    \/ ~listing.readable
    \/ \E i \in 1..Len(listing.entries) :
           listing.entries[i].kind \in {"dir_non_utf8", "entry_err", "type_err"}

RemoteDiscoveryFails ==
    \/ ~response.sent
    \/ response.status # 200
    \/ response.body.kind # "contents"

DiscoveryFails ==
    IF command.mode = "path" THEN LocalDiscoveryFails ELSE RemoteDiscoveryFails

C6_NoPartialOutput ==
    /\ pc # "printed" => stdout = << >>
    /\ pc = "failed" => (err.kind # "none" /\ DiscoveryFails)
    /\ Discovered => (err.kind = "none" /\ ~DiscoveryFails)
    /\ pc = "printed" =>
           /\ ends_with(stdout, Newline)
           /\ Lines(stdout) = result
           /\ Len(result) = 3 + Len(crates)

C6_Witness ==
    /\ pc = "failed"
    /\ command.mode = "git"
    /\ response.sent
    /\ response.status = 404

(***************************************************************************)
(* C7: on a response whose status is not 200 remote discovery returns no   *)
(* crate list: an {status, message} body gives the error                   *)
(* "<status>: <message>", any other body a parse error.                    *)
(***************************************************************************)
C7_Non200Fails ==
    (response.sent /\ response.status # 200) =>
        /\ pc = "failed"
        /\ crates = << >>
        /\ stdout = << >>
        /\ response.body.kind = "error" =>
               /\ err.kind = "github"
               /\ err.message = response.body.status \o <<":", " ">> \o response.body.message
        /\ response.body.kind # "error" => err.kind = "parse"

C7_Witness ==
    /\ response.sent
    /\ response.status = 204
    /\ response.body.kind = "contents"
    /\ Len(response.body.items) > 0
    /\ pc = "failed"

(***************************************************************************)
(* C8: normalize is idempotent, so the normalization api_url applies to    *)
(* the already normalized repository changes nothing: the URL requested    *)
(* is built from the repository as main holds it.                          *)
(***************************************************************************)
C8_NormalizeIdempotent ==
    /\ pc \in {"normalized", "queried"} => user_friendly_repo(repo) = repo
    /\ pc = "queried" =>
           query = StripDotGit(RewriteHost(repo)) \o ContentsSuffix \o git_ref

C8_Witness ==
    /\ pc = "queried"
    /\ given.form = "raw"
    /\ repo # command.repo
    /\ contains(command.repo, Http)

(***************************************************************************)
(* C9, as stated: the output of normalize never ends in .git.              *)
(***************************************************************************)
C9_AsStated ==
    pc \in {"normalized", "queried"} => ~ends_with(repo, <<".", "g", "i", "t">>)

(***************************************************************************)
(* C9, amended: normalize does not remove a trailing .git; its output ends *)
(* in .git exactly when its input contains "/" and ends in .git.           *)
(***************************************************************************)
C9_DotGitKept ==
    pc \in {"normalized", "queried"} =>
        (ends_with(repo, <<".", "g", "i", "t">>)
            <=> (contains(command.repo, <<"/">>)
                 /\ ends_with(command.repo, <<".", "g", "i", "t">>)))

C9_Witness ==
    /\ pc = "normalized"
    /\ given.form = "https.git"
    /\ ends_with(repo, <<".", "g", "i", "t">>)

(***************************************************************************)
(* C10, as stated: local discovery returns the directory names in          *)
(* ascending order with no name repeated.                                  *)
(***************************************************************************)
C10_AsStated ==
    (command.mode = "path" /\ Discovered) => StrictlyAscending(crates)

(***************************************************************************)
(* C10, amended: local discovery returns the names of exactly the entries  *)
(* that are directories, none repeated, in the order the iteration yields  *)
(* them.                                                                   *)
(***************************************************************************)
DirPositions == {i \in 1..Len(listing.entries) : listing.entries[i].kind = "dir"}

C10_IterationOrder ==
    (command.mode = "path" /\ Discovered) =>
        /\ Len(crates) = Cardinality(DirPositions)
        /\ \A i, j \in 1..Len(crates) : crates[i] = crates[j] => i = j
        /\ \A i \in DirPositions :
               crates[Cardinality({k \in DirPositions : k <= i})] = listing.entries[i].name

C10_Witness ==
    /\ command.mode = "path"
    /\ Discovered
    /\ Len(crates) = 2
    /\ Len(listing.entries) = 3
    /\ str_lt(crates[2], crates[1])

====
